---------------------------- MODULE Spec2Model ----------------------------
(***************************************************************************)
(* Funds ledger of the classroom application: the ClassFunds view (its     *)
(* React state and handlers) over the MockDatabase tables kept in          *)
(* localStorage.  Calendar dates 'YYYY-MM-DD' are modelled by the integers *)
(* 1..MaxDate, whose order is the lexicographic order of the date keys.    *)
(* JavaScript numbers are tagged records so that NaN and null (what        *)
(* JSON.stringify makes of NaN) keep their own arithmetic.                 *)
(***************************************************************************)
EXTENDS Integers, Sequences, FiniteSets, TLC

VARIABLES
    settings,          \* React state: AppSettings
    students,          \* React state: Student[]
    expenses,          \* React state: Transaction[]
    plannedExpenses,   \* React state: PlannedExpense[]
    selectedDate,      \* React state: the date the daily view works on
    role,              \* prop: Role.OFFICER or Role.STUDENT
    confirmAction,     \* React state: the pending closure of the confirm modal
    dbSettings,        \* localStorage table 'settings'  (<<>> when the key is absent)
    dbStudents,        \* localStorage table 'students'
    dbTransactions,    \* localStorage table 'transactions'
    dbPlanned,         \* localStorage table 'planned_expenses'
    today,             \* the local calendar date, toLocalISO(new Date())
    utcShift,          \* UTC calendar date minus local calendar date (-1, 0 or 1)
    clock,             \* the reading of Date.now()
    storageFull,       \* localStorage.setItem may throw (quota exceeded)
    nops,              \* number of handler runs so far
    last,              \* history: the handler that ran last, with its arguments
    chain,             \* history: the markAll confirmed last, while nothing else ran
    memoToday,         \* the calendar date read when useMemo last computed financials
    isAnalyzingImage,  \* React state: a roster image import is pending
    upload,            \* the pending import: "idle", "reading" (FileReader), "calling"
                       \* (parseRosterFromImage awaited) or "lost" (no callback will run)
    settings2,         \* React state settings of a second session on the same storage
    students2          \* React state students of the second session

viewVars == <<settings, students, expenses, plannedExpenses, selectedDate, role, confirmAction>>
dbVars   == <<dbSettings, dbStudents, dbTransactions, dbPlanned>>
envVars  == <<today, utcShift, clock, storageFull>>
histVars == <<nops, last, chain, memoToday>>
asideVars == <<isAnalyzingImage, upload, settings2, students2>>
vars     == <<viewVars, dbVars, envVars, histVars, asideVars>>

---------------------------------------------------------------------------
(* Bounds of the model *)

MaxDate == 2        \* calendar dates 1..MaxDate
MaxOps == 4         \* handler runs per behaviour
MaxClock == 2       \* readings of Date.now()
MaxList == 2        \* length of the expense list and of the planned list
NumStudents == 2    \* students of the seeded roster that are kept
MaxRoster == 3      \* length of the roster up to which students are added
MaxText == 4        \* characters of an imported text

Dates == 1..MaxDate

(* Program constants *)
DefaultDailyQuota == 5
DefaultCurrency == "P"      \* the peso sign

---------------------------------------------------------------------------
(* JavaScript values *)

Num(n) == [t |-> "num", v |-> n]
NaNV == [t |-> "nan", v |-> 0]
NullV == [t |-> "null", v |-> 0]
Undefined == [t |-> "undefined", v |-> 0]

\* ToNumber: null is 0, undefined and NaN are NaN
ToNumber(x) ==
    CASE x.t = "num" -> x
      [] x.t = "null" -> Num(0)
      [] OTHER -> NaNV

JsAdd(a, b) ==
    LET x == ToNumber(a)  y == ToNumber(b)
    IN IF x.t = "nan" \/ y.t = "nan" THEN NaNV ELSE Num(x.v + y.v)

JsSub(a, b) ==
    LET x == ToNumber(a)  y == ToNumber(b)
    IN IF x.t = "nan" \/ y.t = "nan" THEN NaNV ELSE Num(x.v - y.v)

\* a >= b : false as soon as one side is NaN
JsGeq(a, b) ==
    LET x == ToNumber(a)  y == ToNumber(b)
    IN x.t = "num" /\ y.t = "num" /\ x.v >= y.v

JsGt(a, b) ==
    LET x == ToNumber(a)  y == ToNumber(b)
    IN x.t = "num" /\ y.t = "num" /\ x.v > y.v

\* a <= b on date keys
JsLeq(a, b) == a <= b

\* x || 0 : 0, NaN, null and undefined are falsy
OrZero(x) == IF x.t = "num" /\ x.v # 0 THEN x ELSE Num(0)

\* x ?? d : only null and undefined give d
Nullish(x, d) == IF x.t \in {"null", "undefined"} THEN d ELSE x

\* a variant that lets a negative difference through
MathMax0_Unclamped(x) == ToNumber(x)

\* Math.max(0, x)
MathMax0(x) ==
    LET y == ToNumber(x)
    IN IF y.t = "nan" THEN NaNV ELSE IF y.v > 0 THEN y ELSE Num(0)

\* obj[key] of a sparse map: undefined when the key is absent
Lookup(map, key) == IF key \in DOMAIN map THEN map[key] ELSE Undefined

\* { ...map, [key]: val }
Merge(map, key, val) ==
    [k \in (DOMAIN map) \cup {key} |-> IF k = key THEN val ELSE map[k]]

\* parseFloat of the text of an <input type="number">
ParseFloat(text) ==
    CASE text = "7" -> Num(7)
      [] text = "5" -> Num(5)
      [] text = "3" -> Num(3)
      [] text = "0" -> Num(0)
      [] text = "-1" -> Num(-1)
      [] OTHER -> NaNV

isNaN(x) == ToNumber(x).t = "nan"

\* JSON.parse(JSON.stringify(x)) of a number: NaN is written as null
JsonNumber(x) == IF x.t = "nan" THEN NullV ELSE x

JsonMap(map) == [k \in DOMAIN map |-> JsonNumber(map[k])]

JsonStudents(list) ==
    [i \in 1..Len(list) |-> [list[i] EXCEPT !.payments = JsonMap(@)]]

JsonSettings(s) ==
    [s EXCEPT !.dailyQuota = JsonNumber(@), !.customQuotas = JsonMap(@)]

JsonTransactions(list) ==
    [i \in 1..Len(list) |-> [list[i] EXCEPT !.amount = JsonNumber(@)]]

JsonPlanned(list) ==
    [i \in 1..Len(list) |-> [list[i] EXCEPT !.estimatedCost = JsonNumber(@)]]

---------------------------------------------------------------------------
(* MockDatabase *)

DEFAULT_SETTINGS ==
    [dailyQuota |-> Num(DefaultDailyQuota), currencySymbol |-> DefaultCurrency,
     customQuotas |-> <<>>, collectionDays |-> <<>>]

\* the head of the seeded roster, in its order
SeedRoster ==
    << [id |-> "m1", name |-> "Agarao, Franco Angelo", gender |-> "M", payments |-> <<>>],
       [id |-> "m2", name |-> "Bobares, John Marel", gender |-> "M", payments |-> <<>>],
       [id |-> "m3", name |-> "Borrico, Ralph Syrill", gender |-> "M", payments |-> <<>>],
       [id |-> "m4", name |-> "Espago, Mart Sandy", gender |-> "M", payments |-> <<>>] >>

\* the roster a fresh installation starts with, cut to NumStudents students
INITIAL_STUDENTS == SubSeq(SeedRoster, 1, NumStudents)

\* a variant that hands out what is left of a text JSON.parse rejects
DbGet_NoCatch(table, defaultValue) == IF table = <<>> THEN defaultValue ELSE table[1]

\* get(table, defaultValue): the default when the key is absent and when JSON.parse
\* throws; a table <<v, "cut">> holds a text that does not parse, cut from that of v
DbGet(table, defaultValue) == IF Len(table) # 1 THEN defaultValue ELSE table[1]

\* set(table, data): the stringified data, or the old value when setItem throws
DbSet(table, json, ok) == IF ok THEN <<json>> ELSE table

\* the outcomes of one localStorage.setItem
SetItemOutcomes == IF storageFull THEN {TRUE, FALSE} ELSE {TRUE}

\* { ...DEFAULT_SETTINGS, ...this.get(SETTINGS, DEFAULT_SETTINGS) }
getSettings(table) ==
    LET s == DbGet(table, DEFAULT_SETTINGS)
        Field(f) == IF f \in DOMAIN s THEN s[f] ELSE DEFAULT_SETTINGS[f]
    IN [dailyQuota |-> Field("dailyQuota"), currencySymbol |-> Field("currencySymbol"),
        customQuotas |-> Field("customQuotas"), collectionDays |-> Field("collectionDays")]

\* getCurrentUser(): the stored session, null without one
getCurrentUser(table) == DbGet(table, NullV)
getStudents(table) == DbGet(table, INITIAL_STUDENTS)
getTransactions(table) == DbGet(table, <<>>)
getPlannedExpenses(table) == DbGet(table, <<>>)


---------------------------------------------------------------------------
(* Logic helpers of the view *)

Officer == "OFFICER"
Student == "STUDENT"

\* a variant for which any recorded flag, true or false, makes the date active
isCollectionActive_AnyFlag(s, date) == date \in DOMAIN s.collectionDays

isCollectionActive(s, date) ==
    date \in DOMAIN s.collectionDays /\ s.collectionDays[date] = TRUE

getQuotaForDate(s, date) ==
    IF isCollectionActive(s, date)
    THEN Nullish(Lookup(s.customQuotas, date), s.dailyQuota)
    ELSE Num(0)

\* students.find(st => st.id === studentId): the index, 0 when there is none
FindStudent(list, id) ==
    IF \E i \in 1..Len(list) : list[i].id = id
    THEN CHOOSE i \in 1..Len(list) :
            list[i].id = id /\ \A j \in 1..(i - 1) : list[j].id # id
    ELSE 0

\* a variant that writes the entry of every student, whatever the id
updateStudentPayment_EveryStudent(list, id, amount, date) ==
    [i \in 1..Len(list) |-> [list[i] EXCEPT !.payments = Merge(@, date, amount)]]

\* a variant that adds the amount to the one already recorded
updateStudentPayment_Adds(list, id, amount, date) ==
    [i \in 1..Len(list) |->
        IF list[i].id # id THEN list[i]
        ELSE [list[i] EXCEPT
                 !.payments = Merge(@, date, JsAdd(OrZero(Lookup(@, date)), amount))]]

\* prev.map(s => s.id !== id ? s : { ...s, payments: { ...s.payments, [date]: amount } })
updateStudentPayment(list, id, amount, date) ==
    [i \in 1..Len(list) |->
        IF list[i].id # id THEN list[i]
        ELSE [list[i] EXCEPT !.payments = Merge(@, date, amount)]]

\* a variant that keeps an entry a student already has
MarkAllUpdated_KeepExisting(list, date, amount) ==
    [i \in 1..Len(list) |->
        IF date \in DOMAIN list[i].payments THEN list[i]
        ELSE [list[i] EXCEPT !.payments = Merge(@, date, amount)]]

\* students.map(s => ({ ...s, payments: { ...s.payments, [date]: amount } }))
MarkAllUpdated(list, date, amount) ==
    [i \in 1..Len(list) |-> [list[i] EXCEPT !.payments = Merge(@, date, amount)]]

\* a variant that clears only an amount above the quota
ToggleAmount_Strict(current, quota) == IF JsGt(current, quota) THEN Num(0) ELSE quota

\* current >= quota ? 0 : quota
ToggleAmount(current, quota) == IF JsGeq(current, quota) THEN Num(0) ELSE quota

---------------------------------------------------------------------------
(* financials: the derived totals of the view *)

RECURSIVE SumValues(_, _)
\* Object.values(payments).forEach(amount => totalIncome += amount), from acc
SumValues(map, acc) ==
    IF DOMAIN map = {} THEN acc
    ELSE LET k == CHOOSE x \in DOMAIN map : \A y \in DOMAIN map : x <= y
             rest == [x \in (DOMAIN map) \ {k} |-> map[x]]
         IN SumValues(rest, JsAdd(acc, map[k]))

RECURSIVE TotalIncomeFrom(_, _, _)
TotalIncomeFrom(list, i, acc) ==
    IF i > Len(list) THEN acc
    ELSE TotalIncomeFrom(list, i + 1, SumValues(list[i].payments, acc))

\* a variant that counts only the payments of the dates currently active
totalIncome_ActiveOnly(list) ==
    TotalIncomeFrom(
        [i \in 1..Len(list) |->
            [list[i] EXCEPT !.payments =
                [d \in {x \in DOMAIN @ : isCollectionActive(settings, x)} |-> @[d]]]],
        1, Num(0))

totalIncome(list) == TotalIncomeFrom(list, 1, Num(0))

RECURSIVE SumAmounts(_, _, _)
\* expenses.reduce((sum, tx) => sum + tx.amount, 0)
SumAmounts(list, i, acc) ==
    IF i > Len(list) THEN acc ELSE SumAmounts(list, i + 1, JsAdd(acc, list[i].amount))

totalExpenses(list) == SumAmounts(list, 1, Num(0))

\* e.category || 'Other'
CategoryOf(e) ==
    IF "category" \in DOMAIN e /\ e.category # "" THEN e.category ELSE "Other"

RECURSIVE CatsFrom(_, _, _)
\* expenses.forEach(e => cats[c] = (cats[c] || 0) + e.amount): the properties of
\* cats in the order they were created, from acc
CatsFrom(list, i, acc) ==
    IF i > Len(list) THEN acc
    ELSE LET c == CategoryOf(list[i])
             at == {k \in 1..Len(acc) : acc[k].name = c}
         IN IF at = {}
            THEN CatsFrom(list, i + 1,
                          Append(acc, [name |-> c, value |-> JsAdd(Num(0), list[i].amount)]))
            ELSE CatsFrom(list, i + 1,
                          [k \in 1..Len(acc) |->
                              IF k \in at
                              THEN [acc[k] EXCEPT !.value = JsAdd(OrZero(@), list[i].amount)]
                              ELSE acc[k]])

\* the property names that are array indices ("0", "1", ...)
IsArrayIndex(name) == \E n \in 0..9 : ToString(n) = name

ArrayIndex(name) == CHOOSE n \in 0..9 : ToString(n) = name

RECURSIVE SortByIndex(_)
\* the properties with array-index names in ascending numeric order
SortByIndex(props) ==
    IF props = <<>> THEN <<>>
    ELSE LET m == CHOOSE k \in 1..Len(props) :
                     \A j \in 1..Len(props) : ArrayIndex(props[k].name) <= ArrayIndex(props[j].name)
         IN <<props[m]>> \o SortByIndex(SelectSeq(props, LAMBDA q : q.name # props[m].name))

\* Object.keys(cats).map(name => ({ name, value: cats[name] })): Object.keys lists
\* the array-index names first, in numeric order, then the others as created
pieData(list) ==
    LET cats == CatsFrom(list, 1, <<>>)
    IN SortByIndex(SelectSeq(cats, LAMBDA q : IsArrayIndex(q.name)))
          \o SelectSeq(cats, LAMBDA q : ~IsArrayIndex(q.name))

\* a variant that does not let the balance fall below 0
currentBalance_Clamped(studs, txs) == MathMax0(JsSub(totalIncome(studs), totalExpenses(txs)))

currentBalance(studs, txs) == JsSub(totalIncome(studs), totalExpenses(txs))

\* Object.keys(collectionDays).filter(d => collectionDays[d] === true && d <= today)
activeDates(s, tdy) ==
    {d \in DOMAIN s.collectionDays : s.collectionDays[d] = TRUE /\ JsLeq(d, tdy)}

RECURSIVE DebtLoop(_, _, _, _, _)
\* activeDates.forEach(date => { paid += payments[date] || 0; owe += quota })
DebtLoop(s, st, dates, paid, owe) ==
    IF dates = {} THEN MathMax0(JsSub(owe, paid))
    ELSE LET date == CHOOSE x \in dates : \A y \in dates : x <= y
             q == Nullish(Lookup(s.customQuotas, date), s.dailyQuota)
             p == OrZero(Lookup(st.payments, date))
         IN DebtLoop(s, st, dates \ {date}, JsAdd(paid, p), JsAdd(owe, q))

\* the debt of one student, today read once for the whole pass
debt(s, st, tdy) == DebtLoop(s, st, activeDates(s, tdy), Num(0), Num(0))

\* { ...s, debt }
WithDebt(s, st, tdy) ==
    [id |-> st.id, name |-> st.name, gender |-> st.gender, payments |-> st.payments,
     debt |-> debt(s, st, tdy)]

RECURSIVE SortDescending(_, _)
\* Array.prototype.sort((a, b) => b.debt - a.debt), which is stable: each element of
\* list goes behind the elements of sorted whose debt is not smaller
SortDescending(list, sorted) ==
    IF list = <<>> THEN sorted
    ELSE LET x == list[1]
             ahead == {k \in 1..Len(sorted) : JsGeq(sorted[k].debt, x.debt)}
             n == Cardinality({k \in 1..Len(sorted) : \A j \in 1..k : j \in ahead})
         IN SortDescending(Tail(list),
                           SubSeq(sorted, 1, n) \o <<x>> \o SubSeq(sorted, n + 1, Len(sorted)))

\* a variant that lists the debtors in roster order
debtors_RosterOrder(s, list, tdy) ==
    SelectSeq([i \in 1..Len(list) |-> WithDebt(s, list[i], tdy)],
              LAMBDA d : JsGt(d.debt, Num(0)))

\* students.map(...).filter(s => s.debt > 0).sort((a, b) => b.debt - a.debt)
debtors(s, list, tdy) ==
    SortDescending(SelectSeq([i \in 1..Len(list) |-> WithDebt(s, list[i], tdy)],
                             LAMBDA d : JsGt(d.debt, Num(0))),
                   <<>>)

RECURSIVE SumDebts(_, _, _)
SumDebts(list, i, acc) ==
    IF i > Len(list) THEN acc ELSE SumDebts(list, i + 1, JsAdd(acc, list[i].debt))

\* debtors.reduce((sum, s) => sum + s.debt, 0)
totalDebt(s, list, tdy) == SumDebts(debtors(s, list, tdy), 1, Num(0))

RECURSIVE SumCosts(_, _, _)
SumCosts(list, i, acc) ==
    IF i > Len(list) THEN acc ELSE SumCosts(list, i + 1, JsAdd(acc, list[i].estimatedCost))

\* plannedExpenses.reduce((sum, p) => sum + p.estimatedCost, 0)
totalWishlist(list) == SumCosts(list, 1, Num(0))

\* the older view: the dates up to the UTC calendar date
activeCollectionDates(s, utcDate) ==
    {d \in DOMAIN s.collectionDays : s.collectionDays[d] = TRUE /\ JsLeq(d, utcDate)}

debtOlderView(s, st, utcDate) ==
    DebtLoop(s, st, activeCollectionDates(s, utcDate), Num(0), Num(0))

\* new Date().toISOString().split('T')[0]
UtcDate == today + utcShift

---------------------------------------------------------------------------
(* History of the handler runs *)

NoChain == [date |-> 0, paid |-> FALSE]

NoOp ==
    [op |-> "none", id |-> "", date |-> 0, paid |-> FALSE, before |-> Undefined,
     run |-> 0, orig |-> Undefined, after |-> "none"]

\* a handler or callback ran to its end: togglePayment remembers whether the handler before it
\* was togglePayment of the same student and date (run = 2) and the amount recorded
\* before that one (orig)
RanIn(op, id, date, paid, before) ==
    LET again == op = "togglePayment" /\ last.op = op /\ last.id = id /\ last.date = date
    IN /\ nops < MaxOps
       /\ nops' = nops + 1
       /\ last' = [op |-> op, id |-> id, date |-> date, paid |-> paid, before |-> before,
                   run |-> IF again THEN 2 ELSE 1,
                   orig |-> IF again THEN last.before ELSE before,
                   after |-> "none"]
       /\ chain' = NoChain

\* a handler of this view ran to its end: it leaves a pending image import and
\* the second session alone; when it has set one of the states settings, students,
\* expenses and plannedExpenses, the next render computes financials again
RanIf(hasSet, op, id, date, paid, before) ==
    /\ RanIn(op, id, date, paid, before)
    /\ memoToday' = IF hasSet THEN today ELSE memoToday
    /\ UNCHANGED asideVars

Ran(op, id, date, paid, before) == RanIf(TRUE, op, id, date, paid, before)

\* the confirmed markAll remembers the markAll confirmed right before it on the
\* same date, if no other handler ran to its end in between
RanMarkAll(date, paid) ==
    /\ nops < MaxOps
    /\ nops' = nops + 1
    /\ last' = [op |-> "confirmMarkAll", id |-> "", date |-> date, paid |-> paid,
                before |-> Undefined, run |-> 1, orig |-> Undefined,
                after |-> IF chain.date # date THEN "none"
                          ELSE IF chain.paid THEN "paid" ELSE "reset"]
    /\ chain' = [date |-> date, paid |-> paid]
    /\ memoToday' = today
    /\ UNCHANGED asideVars

\* a handler that returns at once or only opens the confirm modal
Asked(op, id, date, paid) ==
    /\ nops < MaxOps
    /\ last' = [NoOp EXCEPT !.op = op, !.id = id, !.date = date, !.paid = paid]
    /\ UNCHANGED <<nops, chain, memoToday>>
    /\ UNCHANGED asideVars

\* the recorded amount of student id on date: undefined without student or entry
Cell(list, id, date) ==
    IF FindStudent(list, id) = 0 THEN Undefined
    ELSE Lookup(list[FindStudent(list, id)].payments, date)

ModalClosed == confirmAction = <<>>

StudentIds == {INITIAL_STUDENTS[i].id : i \in 1..NumStudents}

\* what the officer types into the number inputs
QuotaTexts == {"3", "-1", ""}
DefaultQuotaTexts == {"3"}
PaymentTexts == {"7", "-1"}
CellTexts == {"3", ""}

---------------------------------------------------------------------------
(* Initial state: the view mounted over an empty localStorage *)

Init ==
    /\ dbSettings = <<>>
    /\ dbStudents = <<>>
    /\ dbTransactions = <<>>
    /\ dbPlanned = <<>>
    /\ settings = getSettings(dbSettings)
    /\ students = getStudents(dbStudents)
    /\ expenses = getTransactions(dbTransactions)
    /\ plannedExpenses = getPlannedExpenses(dbPlanned)
    /\ today = 1
    /\ selectedDate = today
    /\ role = Officer
    /\ confirmAction = <<>>
    /\ utcShift = 0
    /\ clock = 1
    /\ storageFull = FALSE
    /\ nops = 0
    /\ last = NoOp
    /\ chain = NoChain
    /\ memoToday = today
    /\ isAnalyzingImage = FALSE
    /\ upload = "idle"
    /\ settings2 = getSettings(dbSettings)
    /\ students2 = getStudents(dbStudents)

---------------------------------------------------------------------------
(* Handlers of the ledger *)

\* th onClick: setSelectedDate(dateStr)
SetSelectedDate(d) ==
    /\ ModalClosed
    /\ d # selectedDate
    /\ selectedDate' = d
    /\ UNCHANGED <<settings, students, expenses, plannedExpenses, role, confirmAction>>
    /\ UNCHANGED <<dbVars, envVars, histVars, asideVars>>

\* a variant that forgets the custom quota of the date it switches
ToggledSettings_DropsQuota(s, date) ==
    [s EXCEPT !.collectionDays = Merge(@, date, ~isCollectionActive(s, date)),
              !.customQuotas = [d \in (DOMAIN @) \ {date} |-> @[d]]]

\* { ...settings, collectionDays: { ...settings.collectionDays, [selectedDate]: !isActive } }
ToggledSettings(s, date) ==
    [s EXCEPT !.collectionDays = Merge(@, date, ~isCollectionActive(s, date))]

toggleCollectionDay ==
    /\ ModalClosed
    /\ role = Officer
    /\ LET newSettings == ToggledSettings(settings, selectedDate)
       IN /\ settings' = newSettings
          /\ \E ok \in SetItemOutcomes :
                dbSettings' = DbSet(dbSettings, JsonSettings(newSettings), ok)
    /\ Ran("toggleCollectionDay", "", selectedDate, FALSE, Undefined)
    /\ UNCHANGED <<students, expenses, plannedExpenses, selectedDate, role, confirmAction>>
    /\ UNCHANGED <<dbStudents, dbTransactions, dbPlanned, envVars>>

\* the quota modal is opened from the panel of an active date only
saveDailyQuota(text) ==
    /\ ModalClosed
    /\ role = Officer
    /\ isCollectionActive(settings, selectedDate)
    /\ LET amount == ParseFloat(text)
           newSettings ==
               [settings EXCEPT !.customQuotas = Merge(@, selectedDate, amount)]
       IN IF isNaN(amount)
          THEN UNCHANGED <<settings, dbSettings>>
          ELSE /\ settings' = newSettings
               /\ \E ok \in SetItemOutcomes :
                     dbSettings' = DbSet(dbSettings, JsonSettings(newSettings), ok)
    /\ RanIf(~isNaN(ParseFloat(text)), "saveDailyQuota", "", selectedDate, FALSE, Undefined)
    /\ UNCHANGED <<students, expenses, plannedExpenses, selectedDate, role, confirmAction>>
    /\ UNCHANGED <<dbStudents, dbTransactions, dbPlanned, envVars>>

\* a variant that keeps the stored entries the written roster does not have
saveStudents_Merging(table, data) ==
    LET stored == getStudents(table)
        Kept(st) ==
            IF FindStudent(stored, st.id) = 0 THEN st.payments
            ELSE LET old == stored[FindStudent(stored, st.id)].payments
                 IN [d \in DOMAIN old \cup DOMAIN st.payments |->
                        IF d \in DOMAIN st.payments THEN st.payments[d] ELSE old[d]]
    IN JsonStudents([k \in 1..Len(data) |-> [data[k] EXCEPT !.payments = Kept(data[k])]])

\* saveStudents(data): this.set(TABLES.STUDENTS, data), the whole table is replaced
saveStudents(table, data) == JsonStudents(data)

\* setStudents(updated); db.saveStudents(updated)
WriteStudents(updated) ==
    /\ students' = updated
    /\ \E ok \in SetItemOutcomes :
          dbStudents' = DbSet(dbStudents, saveStudents(dbStudents, updated), ok)

\* a variant whose button does not look at the role
togglePayment_AnyRole(studentId) ==
    /\ ModalClosed
    /\ IF ~isCollectionActive(settings, selectedDate) THEN UNCHANGED <<students, dbStudents>>
       ELSE IF FindStudent(students, studentId) = 0 THEN UNCHANGED <<students, dbStudents>>
       ELSE LET s == students[FindStudent(students, studentId)]
                quota == getQuotaForDate(settings, selectedDate)
                current == OrZero(Lookup(s.payments, selectedDate))
                newAmt == ToggleAmount(current, quota)
            IN WriteStudents(updateStudentPayment(students, studentId, newAmt, selectedDate))
    /\ RanIf(isCollectionActive(settings, selectedDate) /\ FindStudent(students, studentId) # 0,
             "togglePayment", studentId, selectedDate, FALSE,
             Cell(students, studentId, selectedDate))
    /\ UNCHANGED <<settings, expenses, plannedExpenses, selectedDate, role, confirmAction>>
    /\ UNCHANGED <<dbSettings, dbTransactions, dbPlanned, envVars>>

togglePayment(studentId) ==
    /\ ModalClosed
    /\ role = Officer
    /\ IF ~isCollectionActive(settings, selectedDate) THEN UNCHANGED <<students, dbStudents>>
       ELSE IF FindStudent(students, studentId) = 0 THEN UNCHANGED <<students, dbStudents>>
       ELSE LET s == students[FindStudent(students, studentId)]
                quota == getQuotaForDate(settings, selectedDate)
                current == OrZero(Lookup(s.payments, selectedDate))
                newAmt == ToggleAmount(current, quota)
            IN WriteStudents(updateStudentPayment(students, studentId, newAmt, selectedDate))
    /\ RanIf(isCollectionActive(settings, selectedDate) /\ FindStudent(students, studentId) # 0,
             "togglePayment", studentId, selectedDate, FALSE,
           Cell(students, studentId, selectedDate))
    /\ UNCHANGED <<settings, expenses, plannedExpenses, selectedDate, role, confirmAction>>
    /\ UNCHANGED <<dbSettings, dbTransactions, dbPlanned, envVars>>

\* Save Payment of the custom payment modal, opened from the row of an active date
SavePayment(id, text) ==
    /\ ModalClosed
    /\ role = Officer
    /\ isCollectionActive(settings, selectedDate)
    /\ FindStudent(students, id) # 0
    /\ WriteStudents(updateStudentPayment(students, id, ParseFloat(text), selectedDate))
    /\ Ran("savePayment", id, selectedDate, FALSE, Cell(students, id, selectedDate))
    /\ UNCHANGED <<settings, expenses, plannedExpenses, selectedDate, role, confirmAction>>
    /\ UNCHANGED <<dbSettings, dbTransactions, dbPlanned, envVars>>

\* LedgerCell.commit of the cell (id, date): the input exists for an officer and an
\* active date; a text that parses to no number counts as 0; an unchanged value is
\* not written
LedgerCellCommit(id, date, text) ==
    /\ ModalClosed
    /\ role = Officer
    /\ isCollectionActive(settings, date)
    /\ FindStudent(students, id) # 0
    /\ LET value == OrZero(Cell(students, id, date))
           num == ParseFloat(text)
           final == IF isNaN(num) THEN Num(0) ELSE num
       IN IF final # value
          THEN WriteStudents(updateStudentPayment(students, id, final, date))
          ELSE UNCHANGED <<students, dbStudents>>
    /\ RanIf((IF isNaN(ParseFloat(text)) THEN Num(0) ELSE ParseFloat(text))
                # OrZero(Cell(students, id, date)),
             "ledgerCell", id, date, FALSE, Cell(students, id, date))
    /\ UNCHANGED <<settings, expenses, plannedExpenses, selectedDate, role, confirmAction>>
    /\ UNCHANGED <<dbSettings, dbTransactions, dbPlanned, envVars>>

\* a variant whose cell takes the click on any date
QuickPay_AnyDate(id, date) ==
    /\ ModalClosed
    /\ role = Officer
    /\ FindStudent(students, id) # 0
    /\ LET value == OrZero(Cell(students, id, date))
           quota == getQuotaForDate(settings, date)
       IN WriteStudents(updateStudentPayment(students, id, ToggleAmount(value, quota), date))
    /\ Ran("quickPay", id, date, FALSE, Cell(students, id, date))
    /\ UNCHANGED <<settings, expenses, plannedExpenses, selectedDate, role, confirmAction>>
    /\ UNCHANGED <<dbSettings, dbTransactions, dbPlanned, envVars>>

\* LedgerCell in quick pay mode: onChange(value >= quota ? 0 : quota)
QuickPay(id, date) ==
    /\ ModalClosed
    /\ role = Officer
    /\ isCollectionActive(settings, date)
    /\ FindStudent(students, id) # 0
    /\ LET value == OrZero(Cell(students, id, date))
           quota == getQuotaForDate(settings, date)
       IN WriteStudents(updateStudentPayment(students, id, ToggleAmount(value, quota), date))
    /\ Ran("quickPay", id, date, FALSE, Cell(students, id, date))
    /\ UNCHANGED <<settings, expenses, plannedExpenses, selectedDate, role, confirmAction>>
    /\ UNCHANGED <<dbSettings, dbTransactions, dbPlanned, envVars>>

\* refreshData(): the four React states are read back from the tables
refreshData(tSettings, tStudents, tTransactions, tPlanned) ==
    /\ settings' = getSettings(tSettings)
    /\ students' = getStudents(tStudents)
    /\ expenses' = getTransactions(tTransactions)
    /\ plannedExpenses' = getPlannedExpenses(tPlanned)

\* settings modal, Default Daily Quota: db.saveSettings({...settings, dailyQuota}); refreshData()
SaveDefaultQuota(text) ==
    /\ ModalClosed
    /\ role = Officer
    /\ \E ok \in SetItemOutcomes :
          dbSettings' = DbSet(dbSettings,
                              JsonSettings([settings EXCEPT !.dailyQuota = ParseFloat(text)]), ok)
    /\ refreshData(dbSettings', dbStudents, dbTransactions, dbPlanned)
    /\ Ran("saveDefaultQuota", "", 0, FALSE, Undefined)
    /\ UNCHANGED <<selectedDate, role, confirmAction>>
    /\ UNCHANGED <<dbStudents, dbTransactions, dbPlanned, envVars>>

\* markAll(paid): opens the confirm modal with a closure over students, settings
\* and selectedDate of this render
markAll(paid) ==
    /\ ModalClosed
    /\ role = Officer
    /\ IF ~isCollectionActive(settings, selectedDate) THEN UNCHANGED confirmAction
       ELSE confirmAction' =
              << [kind |-> "markAll", paid |-> paid, date |-> selectedDate,
                  students |-> students,
                  quota |-> getQuotaForDate(settings, selectedDate)] >>
    /\ Asked("markAll", "", selectedDate, paid)
    /\ UNCHANGED <<settings, students, expenses, plannedExpenses, selectedDate, role>>
    /\ UNCHANGED <<dbVars, envVars>>

\* Confirm of the modal opened by markAll
ConfirmMarkAll ==
    /\ confirmAction # <<>>
    /\ confirmAction[1].kind = "markAll"
    /\ LET c == confirmAction[1]
       IN /\ WriteStudents(MarkAllUpdated(c.students, c.date,
                                          IF c.paid THEN c.quota ELSE Num(0)))
          /\ RanMarkAll(c.date, c.paid)
    /\ confirmAction' = <<>>
    /\ UNCHANGED <<settings, expenses, plannedExpenses, selectedDate, role>>
    /\ UNCHANGED <<dbSettings, dbTransactions, dbPlanned, envVars>>

\* Cancel of the confirm modal
CancelConfirm ==
    /\ confirmAction # <<>>
    /\ confirmAction' = <<>>
    /\ UNCHANGED <<settings, students, expenses, plannedExpenses, selectedDate, role>>
    /\ UNCHANGED <<dbVars, envVars, histVars, asideVars>>

\* the local calendar date advances
AdvanceDay ==
    /\ today < MaxDate
    /\ today' = today + 1
    /\ UNCHANGED <<utcShift, clock, storageFull>>
    /\ UNCHANGED <<viewVars, dbVars, histVars, asideVars>>

Next ==
    \/ \E d \in Dates : SetSelectedDate(d)
    \/ toggleCollectionDay
    \/ \E text \in QuotaTexts : saveDailyQuota(text)
    \/ \E text \in DefaultQuotaTexts : SaveDefaultQuota(text)
    \/ \E id \in StudentIds : togglePayment(id)
    \/ \E id \in StudentIds, text \in PaymentTexts : SavePayment(id, text)
    \/ \E id \in StudentIds, d \in Dates, text \in CellTexts : LedgerCellCommit(id, d, text)
    \/ \E id \in StudentIds, d \in Dates : QuickPay(id, d)
    \/ \E paid \in BOOLEAN : markAll(paid)
    \/ ConfirmMarkAll
    \/ CancelConfirm
    \/ AdvanceDay

Spec == Init /\ [][Next]_vars

---------------------------------------------------------------------------
(* MockDatabase: expenses and planned expenses *)

\* addExpense: the transactions table with the new expense appended
addExpense(table, amount, description, category, now) ==
    LET txs == getTransactions(table)
        newTx == [id |-> now, amount |-> amount, description |-> description,
                  date |-> now, type |-> "EXPENSE", category |-> category,
                  status |-> "PAID"]
    IN JsonTransactions(Append(txs, newTx))

\* getTransactions().filter(t => t.id !== id)
deleteTransaction(table, id) ==
    LET txs == getTransactions(table)
    IN JsonTransactions(SelectSeq(txs, LAMBDA t : t.id # id))

addPlannedExpense(table, item, estimatedCost, priority, now) ==
    LET plans == getPlannedExpenses(table)
        newPlan == [id |-> now, item |-> item, estimatedCost |-> estimatedCost,
                    priority |-> priority]
    IN JsonPlanned(Append(plans, newPlan))

\* getPlannedExpenses().filter(p => p.id !== id)
deletePlannedExpense(table, id) ==
    LET plans == getPlannedExpenses(table)
    IN JsonPlanned(SelectSeq(plans, LAMBDA q : q.id # id))

\* the ids a transaction or a planned item can have: the readings of Date.now()
TxIds == 1..MaxClock

\* what the officer types into the expense and wishlist modals
ExpenseTexts == {"3", "-1", ""}
Descriptions == {"Tape", ""}
Categories == {"Materials", "1", ""}
Items == {"Globe", "Chalk"}
Priorities == {"Medium"}

---------------------------------------------------------------------------
(* Handlers of the budget tab *)

saveExpense(amountText, desc, isCustomCat, cat) ==
    /\ ModalClosed
    /\ role = Officer
    /\ Len(expenses) < MaxList
    /\ IF amountText = "" \/ desc = ""
       THEN UNCHANGED <<settings, students, expenses, plannedExpenses, dbTransactions>>
       ELSE LET category == IF isCustomCat THEN cat ELSE "General"
            IN /\ \E ok \in SetItemOutcomes :
                     dbTransactions' =
                        DbSet(dbTransactions,
                              addExpense(dbTransactions, ParseFloat(amountText), desc,
                                         IF category = "" THEN "General" ELSE category,
                                         clock), ok)
               /\ refreshData(dbSettings, dbStudents, dbTransactions', dbPlanned)
    /\ RanIf(amountText # "" /\ desc # "", "saveExpense", "", 0, FALSE, Undefined)
    /\ UNCHANGED <<selectedDate, role, confirmAction>>
    /\ UNCHANGED <<dbSettings, dbStudents, dbPlanned, envVars>>

saveWish(item, costText, prio) ==
    /\ ModalClosed
    /\ role = Officer
    /\ Len(plannedExpenses) < MaxList
    /\ IF item = "" \/ costText = ""
       THEN UNCHANGED <<settings, students, expenses, plannedExpenses, dbPlanned>>
       ELSE /\ \E ok \in SetItemOutcomes :
                  dbPlanned' =
                     DbSet(dbPlanned,
                           addPlannedExpense(dbPlanned, item, ParseFloat(costText), prio, clock),
                           ok)
            /\ refreshData(dbSettings, dbStudents, dbTransactions, dbPlanned')
    /\ RanIf(item # "" /\ costText # "", "saveWish", "", 0, FALSE, Undefined)
    /\ UNCHANGED <<selectedDate, role, confirmAction>>
    /\ UNCHANGED <<dbSettings, dbStudents, dbTransactions, envVars>>

\* convertWishToExpense(wish) of the k-th listed item: opens the confirm modal
convertWishToExpense(k) ==
    /\ ModalClosed
    /\ role = Officer
    /\ k \in 1..Len(plannedExpenses)
    /\ confirmAction' = << [kind |-> "convert", wish |-> plannedExpenses[k]] >>
    /\ Asked("convertWishToExpense", "", 0, FALSE)
    /\ UNCHANGED <<settings, students, expenses, plannedExpenses, selectedDate, role>>
    /\ UNCHANGED <<dbVars, envVars>>

\* Confirm of the modal opened by convertWishToExpense:
\* db.addExpense(...); db.deletePlannedExpense(wish.id); refreshData()
ConfirmConvert ==
    /\ confirmAction # <<>>
    /\ confirmAction[1].kind = "convert"
    /\ LET wish == confirmAction[1].wish
       IN /\ \E ok \in SetItemOutcomes :
                dbTransactions' =
                   DbSet(dbTransactions,
                         addExpense(dbTransactions, wish.estimatedCost, wish.item,
                                    "Materials", clock), ok)
          /\ \E ok \in SetItemOutcomes :
                dbPlanned' = DbSet(dbPlanned, deletePlannedExpense(dbPlanned, wish.id), ok)
    /\ refreshData(dbSettings, dbStudents, dbTransactions', dbPlanned')
    /\ Ran("confirmConvert", "", 0, FALSE, Undefined)
    /\ confirmAction' = <<>>
    /\ UNCHANGED <<selectedDate, role>>
    /\ UNCHANGED <<dbSettings, dbStudents, envVars>>

\* the trash button of a planned item: db.deletePlannedExpense(p.id); refreshData()
DeletePlanned(id) ==
    /\ ModalClosed
    /\ role = Officer
    /\ \E ok \in SetItemOutcomes :
          dbPlanned' = DbSet(dbPlanned, deletePlannedExpense(dbPlanned, id), ok)
    /\ refreshData(dbSettings, dbStudents, dbTransactions, dbPlanned')
    /\ Ran("deletePlanned", ToString(id), 0, FALSE, Undefined)
    /\ UNCHANGED <<selectedDate, role, confirmAction>>
    /\ UNCHANGED <<dbSettings, dbStudents, dbTransactions, envVars>>

\* deleteExpense(id): opens the confirm modal
deleteExpense(id) ==
    /\ ModalClosed
    /\ role = Officer
    /\ confirmAction' = << [kind |-> "deleteExpense", id |-> id] >>
    /\ Asked("deleteExpense", "", 0, FALSE)
    /\ UNCHANGED <<settings, students, expenses, plannedExpenses, selectedDate, role>>
    /\ UNCHANGED <<dbVars, envVars>>

\* Confirm of the modal opened by deleteExpense: db.deleteTransaction(id); refreshData()
ConfirmDeleteExpense ==
    /\ confirmAction # <<>>
    /\ confirmAction[1].kind = "deleteExpense"
    /\ \E ok \in SetItemOutcomes :
          dbTransactions' =
             DbSet(dbTransactions, deleteTransaction(dbTransactions, confirmAction[1].id), ok)
    /\ refreshData(dbSettings, dbStudents, dbTransactions', dbPlanned)
    /\ Ran("confirmDeleteExpense", ToString(confirmAction[1].id), 0, FALSE, Undefined)
    /\ confirmAction' = <<>>
    /\ UNCHANGED <<selectedDate, role>>
    /\ UNCHANGED <<dbSettings, dbStudents, dbPlanned, envVars>>

---------------------------------------------------------------------------
(* MockDatabase: the roster *)

\* Math.random().toString(36).substr(2, 5): the draws there are
RandomSuffixes == {"a", "b"}

\* Date.now().toString() + Math.random().toString(36).substr(2, 5)
NewStudentId(now, suffix) == ToString(now) \o suffix

\* addStudent: the students table with the new student appended
addStudent(table, name, gender, now, suffix) ==
    LET list == getStudents(table)
        newStudent == [id |-> NewStudentId(now, suffix), name |-> name,
                       gender |-> gender, payments |-> <<>>]
    IN JsonStudents(Append(list, newStudent))

\* a variant that drops the first student when no student has the id
deleteStudent_DropsFirst(table, id) ==
    LET list == getStudents(table)
    IN IF \E k \in 1..Len(list) : list[k].id = id
       THEN JsonStudents(SelectSeq(list, LAMBDA st : st.id # id))
       ELSE JsonStudents(Tail(list))

\* a variant that also empties the payments of the students it keeps
deleteStudent_ResetsRest(table, id) ==
    LET kept == SelectSeq(getStudents(table), LAMBDA st : st.id # id)
    IN JsonStudents([k \in 1..Len(kept) |-> [kept[k] EXCEPT !.payments = <<>>]])

\* getStudents().filter(s => s.id !== id)
deleteStudent(table, id) ==
    JsonStudents(SelectSeq(getStudents(table), LAMBDA st : st.id # id))

\* the characters of an imported text
Chars == {"F", "M", "f", "a", " ", ",", "\n", "\r"}

\* the texts of up to MaxText characters, as sequences of characters
Texts == UNION {[1..n -> Chars] : n \in 0..MaxText}

WhiteSpace == {" ", "\n", "\r"}

RECURSIVE Join(_)
\* the string of a sequence of characters
Join(cs) == IF cs = <<>> THEN "" ELSE cs[1] \o Join(Tail(cs))

RECURSIVE SplitLines(_, _)
\* text.split(/\r?\n/): cur is the piece read so far
SplitLines(text, cur) ==
    IF text = <<>> THEN <<cur>>
    ELSE IF text[1] = "\n"
         THEN LET piece == IF cur # <<>> /\ cur[Len(cur)] = "\r"
                           THEN SubSeq(cur, 1, Len(cur) - 1) ELSE cur
              IN <<piece>> \o SplitLines(Tail(text), <<>>)
         ELSE SplitLines(Tail(text), Append(cur, text[1]))

RECURSIVE TrimStart(_)
TrimStart(cs) ==
    IF cs # <<>> /\ cs[1] \in WhiteSpace THEN TrimStart(Tail(cs)) ELSE cs

RECURSIVE TrimEnd(_)
TrimEnd(cs) ==
    IF cs # <<>> /\ cs[Len(cs)] \in WhiteSpace THEN TrimEnd(SubSeq(cs, 1, Len(cs) - 1)) ELSE cs

\* String.prototype.trim
Trim(cs) == TrimEnd(TrimStart(cs))

\* String.prototype.toUpperCase, character by character
ToUpperCase(cs) ==
    [k \in 1..Len(cs) |-> CASE cs[k] = "f" -> "F" [] cs[k] = "a" -> "A" [] OTHER -> cs[k]]

\* String.prototype.startsWith
StartsWith(cs, prefix) == Len(cs) >= Len(prefix) /\ SubSeq(cs, 1, Len(prefix)) = prefix

\* line.substring(2).replace(/[,]/g, '').trim()
AfterMarker(line) ==
    Trim(SelectSeq(SubSeq(line, 3, Len(line)), LAMBDA c : c # ","))

\* text.split(/\r?\n/).map(n => n.trim()).filter(n => n.length > 0)
ImportLines(text) ==
    LET pieces == SplitLines(text, <<>>)
    IN SelectSeq([k \in 1..Len(pieces) |-> Trim(pieces[k])], LAMBDA l : Len(l) > 0)

\* the gender and the name importStudentsFromText reads from one line
ParseLine(line) ==
    LET up == ToUpperCase(line)
    IN IF StartsWith(up, <<"F", " ">>) \/ StartsWith(up, <<"F", ",">>)
       THEN [gender |-> "F", name |-> Join(AfterMarker(line))]
       ELSE IF StartsWith(up, <<"M", " ">>) \/ StartsWith(up, <<"M", ",">>)
       THEN [gender |-> "M", name |-> Join(AfterMarker(line))]
       ELSE [gender |-> "M", name |-> Join(line)]

\* importStudentsFromText: the students table with one student per line appended;
\* suffixes[k] is the random draw of the k-th line
importStudentsFromText(table, text, now, suffixes) ==
    LET lines == ImportLines(text)
        currentStudents == getStudents(table)
        newStudents ==
            [k \in 1..Len(lines) |->
                [id |-> NewStudentId(now, suffixes[k]), name |-> ParseLine(lines[k]).name,
                 gender |-> ParseLine(lines[k]).gender, payments |-> <<>>]]
    IN JsonStudents(currentStudents \o newStudents)

\* the count importStudentsFromText returns
ImportCount(text) == Len(ImportLines(text))

\* what the officer answers to prompt("Name:")
PromptNames == {"Ana", ""}

\* what is recorded with updateStudentPayment
RecordTexts == {"7", "3", "0"}

\* every id a student can have
IdPool == StudentIds \cup {NewStudentId(c, r) : c \in 1..MaxClock, r \in RandomSuffixes}

---------------------------------------------------------------------------
(* Handlers of the students tab *)

\* Add Single: const n = prompt("Name:"); if (n) { db.addStudent(n); refreshData() }
AddStudent(n, suffix) ==
    /\ ModalClosed
    /\ role = Officer
    /\ Len(students) < MaxRoster
    /\ IF n = ""
       THEN UNCHANGED <<settings, students, expenses, plannedExpenses, dbStudents>>
       ELSE /\ \E ok \in SetItemOutcomes :
                  dbStudents' = DbSet(dbStudents, addStudent(dbStudents, n, "M", clock, suffix), ok)
            /\ refreshData(dbSettings, dbStudents', dbTransactions, dbPlanned)
    /\ RanIf(n # "", "addStudent",
             IF n = "" THEN "" ELSE NewStudentId(clock, suffix), 0, FALSE, Undefined)
    /\ UNCHANGED <<selectedDate, role, confirmAction>>
    /\ UNCHANGED <<dbSettings, dbTransactions, dbPlanned, envVars>>

\* the trash button of a student, confirmed: db.deleteStudent(s.id); refreshData()
DeleteStudent(id) ==
    /\ ModalClosed
    /\ role = Officer
    /\ \E ok \in SetItemOutcomes :
          dbStudents' = DbSet(dbStudents, deleteStudent(dbStudents, id), ok)
    /\ refreshData(dbSettings, dbStudents', dbTransactions, dbPlanned)
    /\ LET gone == SelectSeq(students, LAMBDA st : st.id = id)
           owing == debtors(settings, students, today)
       IN Ran("deleteStudent", id, 0, FALSE,
              [t |-> "gone", n |-> Len(gone), sum |-> totalIncome(gone),
               owed |-> \E k \in 1..Len(owing) : owing[k].id = id])
    /\ UNCHANGED <<selectedDate, role, confirmAction>>
    /\ UNCHANGED <<dbSettings, dbTransactions, dbPlanned, envVars>>

\* onload of the text file reader: db.importStudentsFromText(text); refreshData()
ImportText(text) ==
    /\ ModalClosed
    /\ role = Officer
    /\ Len(students) < MaxRoster
    /\ \E suffixes \in [1..ImportCount(text) -> RandomSuffixes], ok \in SetItemOutcomes :
          dbStudents' =
             DbSet(dbStudents, importStudentsFromText(dbStudents, text, clock, suffixes), ok)
    /\ refreshData(dbSettings, dbStudents', dbTransactions, dbPlanned)
    /\ Ran("importText", "", 0, FALSE, [t |-> "text", v |-> text])
    /\ UNCHANGED <<selectedDate, role, confirmAction>>
    /\ UNCHANGED <<dbSettings, dbTransactions, dbPlanned, envVars>>

\* updateStudentPayment(id, amount, date) called for any id
RecordPayment(id, date, text) ==
    /\ ModalClosed
    /\ role = Officer
    /\ isCollectionActive(settings, date)
    /\ WriteStudents(updateStudentPayment(students, id, ParseFloat(text), date))
    /\ Ran("recordPayment", id, date, FALSE,
           [t |-> "set", amount |-> ParseFloat(text), old |-> Cell(students, id, date)])
    /\ UNCHANGED <<settings, expenses, plannedExpenses, selectedDate, role, confirmAction>>
    /\ UNCHANGED <<dbSettings, dbTransactions, dbPlanned, envVars>>

---------------------------------------------------------------------------
(* The roster image import *)

\* what parseRosterFromImage resolves to: the names it read, or [] when it read
\* none or the request or JSON.parse failed
ExtractedLists ==
    {<<>>,
     <<[name |-> "Bea", gender |-> "F"]>>,
     <<[name |-> "Bea", gender |-> "F"], [name |-> "Cai", gender |-> "M"]>>}

\* a callback of the import ran: it is no click of the user and is not counted
\* as a handler run
CallbackRan(op, hasSet) ==
    /\ last' = [NoOp EXCEPT !.op = op]
    /\ chain' = NoChain
    /\ memoToday' = IF hasSet THEN today ELSE memoToday
    /\ UNCHANGED nops

\* a variant that appends the extracted students to the seeded roster
AppendExtracted_ToSeed(table, extracted, now, suffixes) ==
    saveStudents(table,
        INITIAL_STUDENTS \o [k \in 1..Len(extracted) |->
                               [id |-> NewStudentId(now, suffixes[k]),
                                name |-> extracted[k].name,
                                gender |-> extracted[k].gender, payments |-> <<>>]])

\* db.saveStudents([...db.getStudents(), ...newStudents])
AppendExtracted(table, extracted, now, suffixes) ==
    saveStudents(table,
        getStudents(table) \o [k \in 1..Len(extracted) |->
                                 [id |-> NewStudentId(now, suffixes[k]),
                                  name |-> extracted[k].name,
                                  gender |-> extracted[k].gender, payments |-> <<>>]])

\* onChange of the image input, shown in the import modal while no import is
\* pending: setIsAnalyzingImage(true) and the FileReader is started
handleImageUpload ==
    /\ ModalClosed
    /\ role = Officer
    /\ ~isAnalyzingImage
    /\ upload = "idle"
    /\ isAnalyzingImage' = TRUE
    /\ upload' = "reading"
    /\ RanIn("handleImageUpload", "", 0, FALSE, Undefined)
    /\ UNCHANGED <<memoToday, settings2, students2>>
    /\ UNCHANGED <<viewVars, dbVars, envVars>>

\* reader.onload fires: parseRosterFromImage is called and awaited
ReaderLoads ==
    /\ upload = "reading"
    /\ upload' = "calling"
    /\ UNCHANGED <<isAnalyzingImage, settings2, students2>>
    /\ UNCHANGED <<viewVars, dbVars, envVars, histVars>>

\* the FileReader fails: it fires its error event, for which no handler is set,
\* and onload never runs
ReaderFails ==
    /\ upload = "reading"
    /\ upload' = "lost"
    /\ UNCHANGED <<isAnalyzingImage, settings2, students2>>
    /\ UNCHANGED <<viewVars, dbVars, envVars, histVars>>

\* parseRosterFromImage resolves and the rest of onload runs; setModals takes the
\* modals of the render in which the image was chosen, where the confirm modal
\* is closed
ServiceReturns(extracted) ==
    /\ upload = "calling"
    /\ IF Len(extracted) > 0
       THEN /\ \E suffixes \in [1..Len(extracted) -> RandomSuffixes], ok \in SetItemOutcomes :
                  dbStudents' =
                     DbSet(dbStudents,
                           AppendExtracted(dbStudents, extracted, clock, suffixes),
                           ok)
            /\ refreshData(dbSettings, dbStudents', dbTransactions, dbPlanned)
            /\ confirmAction' = <<>>
       ELSE UNCHANGED <<settings, students, expenses, plannedExpenses, confirmAction,
                        dbStudents>>
    /\ isAnalyzingImage' = FALSE
    /\ upload' = "idle"
    /\ CallbackRan(IF Len(extracted) > 0 THEN "imageImported" ELSE "imageEmpty",
                   Len(extracted) > 0)
    /\ UNCHANGED <<selectedDate, role, settings2, students2>>
    /\ UNCHANGED <<dbSettings, dbTransactions, dbPlanned, envVars>>

---------------------------------------------------------------------------
(* A second session (another tab) on the same localStorage *)

\* the view of the second session mounts: its effect calls refreshData()
Mount2 ==
    /\ settings2' = getSettings(dbSettings)
    /\ students2' = getStudents(dbStudents)
    /\ <<settings2', students2'>> # <<settings2, students2>>
    /\ UNCHANGED <<isAnalyzingImage, upload>>
    /\ UNCHANGED <<viewVars, dbVars, envVars, histVars>>

\* Save Payment in the second session, whose selected date is today
RecordPayment2(id, text) ==
    /\ isCollectionActive(settings2, today)
    /\ FindStudent(students2, id) # 0
    /\ LET updated == updateStudentPayment(students2, id, ParseFloat(text), today)
       IN /\ students2' = updated
          /\ \E ok \in SetItemOutcomes :
                dbStudents' = DbSet(dbStudents, saveStudents(dbStudents, updated), ok)
    /\ RanIn("recordPayment2", id, today, FALSE,
             [t |-> "set", amount |-> ParseFloat(text), old |-> Cell(students2, id, today)])
    /\ UNCHANGED <<settings2, isAnalyzingImage, upload, memoToday>>
    /\ UNCHANGED <<viewVars, dbSettings, dbTransactions, dbPlanned, envVars>>

---------------------------------------------------------------------------
(* The environment *)

\* Date.now() reads a later value
Tick ==
    /\ clock < MaxClock
    /\ clock' = clock + 1
    /\ UNCHANGED <<today, utcShift, storageFull>>
    /\ UNCHANGED <<viewVars, dbVars, histVars, asideVars>>

\* localStorage reaches its quota: from now on a setItem may throw
StorageFills ==
    /\ ~storageFull
    /\ storageFull' = TRUE
    /\ UNCHANGED <<today, utcShift, clock>>
    /\ UNCHANGED <<viewVars, dbVars, histVars, asideVars>>

\* the UTC calendar date is the local one, the day before or the day after,
\* with the hour and the time zone
ShiftUtc(k) ==
    /\ k # utcShift
    /\ utcShift' = k
    /\ UNCHANGED <<today, clock, storageFull>>
    /\ UNCHANGED <<viewVars, dbVars, histVars, asideVars>>

NextBudget ==
    \/ \E a \in ExpenseTexts, desc \in Descriptions, custom \in BOOLEAN, cat \in Categories :
          saveExpense(a, desc, custom, cat)
    \/ \E item \in Items, a \in ExpenseTexts, prio \in Priorities : saveWish(item, a, prio)
    \/ \E k \in 1..MaxList : convertWishToExpense(k)
    \/ ConfirmConvert
    \/ \E id \in TxIds : DeletePlanned(id)
    \/ \E id \in TxIds : deleteExpense(id)
    \/ ConfirmDeleteExpense
    \/ CancelConfirm
    \/ Tick
    \/ StorageFills

\* the budget tab, over a localStorage that may reach its quota
SpecBudget == Init /\ [][NextBudget]_vars

NextClock ==
    \/ \E d \in Dates : SetSelectedDate(d)
    \/ toggleCollectionDay
    \/ \E id \in StudentIds : togglePayment(id)
    \/ AdvanceDay
    \/ \E k \in {-1, 0, 1} : ShiftUtc(k)

\* collection days and payments while the local and the UTC calendar date move
SpecClock == Init /\ [][NextClock]_vars

\* the stored text of a table no longer parses (the storage was damaged or
\* written by something else)
Garble(t) ==
    /\ t \in 1..4
    /\ Len(dbVars[t]) = 1
    /\ dbSettings' = IF t = 1 THEN <<dbSettings[1], "cut">> ELSE dbSettings
    /\ dbStudents' = IF t = 2 THEN <<dbStudents[1], "cut">> ELSE dbStudents
    /\ dbTransactions' = IF t = 3 THEN <<dbTransactions[1], "cut">> ELSE dbTransactions
    /\ dbPlanned' = IF t = 4 THEN <<dbPlanned[1], "cut">> ELSE dbPlanned
    /\ UNCHANGED <<viewVars, envVars, histVars, asideVars>>

\* the page is loaded again: the view mounts and its effect calls refreshData()
Reload ==
    /\ refreshData(dbSettings, dbStudents, dbTransactions, dbPlanned)
    /\ selectedDate' = today
    /\ confirmAction' = <<>>
    /\ Ran("reload", "", 0, FALSE, Undefined)
    /\ UNCHANGED <<role, dbVars, envVars>>

\* the view is mounted anew for the user who is logged in now: the role prop is
\* that user's role and the effect calls refreshData()
MountAs(r) ==
    /\ role' = r
    /\ refreshData(dbSettings, dbStudents, dbTransactions, dbPlanned)
    /\ selectedDate' = today
    /\ confirmAction' = <<>>
    /\ Ran("mountAs", r, 0, FALSE, Undefined)
    /\ UNCHANGED <<dbVars, envVars>>

\* the text file is imported before any other handler runs
NextImport ==
    \/ nops = 0 /\ \E text \in Texts : ImportText(text)
    \/ \E id \in IdPool : DeleteStudent(id)
    \/ Tick

\* the import of a roster from a text file
SpecImport == Init /\ [][NextImport]_vars

NextBalance ==
    \/ toggleCollectionDay
    \/ \E id \in StudentIds : togglePayment(id)
    \/ \E a \in {"3", "7"} : saveExpense(a, "Tape", FALSE, "")
    \/ \E item \in Items : saveWish(item, "3", "Medium")
    \/ \E id \in TxIds : DeletePlanned(id)
    \/ Tick

\* payments, expenses and planned items side by side
SpecBalance == Init /\ [][NextBalance]_vars

\* lines of a roster file
RosterTexts == {<<"a">>, <<"a", "\n", "M", " ", "a">>}

NextRoster ==
    \/ \E d \in Dates : SetSelectedDate(d)
    \/ toggleCollectionDay
    \/ \E id \in IdPool, text \in RecordTexts : RecordPayment(id, selectedDate, text)
    \/ \E n \in PromptNames, suffix \in RandomSuffixes : AddStudent(n, suffix)
    \/ \E id \in IdPool : DeleteStudent(id)
    \/ \E text \in RosterTexts : ImportText(text)
    \/ Tick

\* the roster is edited while payments are recorded
SpecRoster == Init /\ [][NextRoster]_vars

NextUnsaved ==
    \/ toggleCollectionDay
    \/ \E text \in QuotaTexts : saveDailyQuota(text)
    \/ \E id \in StudentIds : togglePayment(id)
    \/ \E id \in StudentIds, text \in {"7", ""} : SavePayment(id, text)
    \/ saveExpense("3", "Tape", FALSE, "")
    \/ saveWish("Globe", "3", "Medium")
    \/ \E id \in StudentIds : DeleteStudent(id)
    \/ StorageFills

\* the handlers that write, over a localStorage that may reach its quota
SpecUnsaved == Init /\ [][NextUnsaved]_vars

NextSessions ==
    \/ toggleCollectionDay
    \/ \E id \in StudentIds, text \in RecordTexts : RecordPayment(id, selectedDate, text)
    \/ Reload
    \/ Mount2
    \/ \E id \in StudentIds, text \in RecordTexts : RecordPayment2(id, text)

\* two sessions record payments over one localStorage
SpecSessions == Init /\ [][NextSessions]_vars

NextRoles ==
    \/ \E r \in {Officer, Student} : MountAs(r)
    \/ \E d \in Dates : SetSelectedDate(d)
    \/ toggleCollectionDay
    \/ saveDailyQuota("3")
    \/ SaveDefaultQuota("3")
    \/ \E id \in StudentIds : togglePayment(id)
    \/ SavePayment("m1", "7")
    \/ LedgerCellCommit("m1", today, "3")
    \/ QuickPay("m2", today)
    \/ markAll(TRUE)
    \/ ConfirmMarkAll
    \/ CancelConfirm
    \/ AddStudent("Ana", "a")
    \/ DeleteStudent("m1")
    \/ ImportText(<<"a">>)
    \/ saveExpense("3", "Tape", FALSE, "")
    \/ deleteExpense(1)
    \/ ConfirmDeleteExpense
    \/ saveWish("Globe", "3", "Medium")
    \/ convertWishToExpense(1)
    \/ ConfirmConvert
    \/ DeletePlanned(1)

\* the view as mounted for an officer and for a student, over the same tables
SpecRoles == Init /\ [][NextRoles]_vars

NextUpload ==
    \/ handleImageUpload
    \/ ReaderLoads
    \/ ReaderFails
    \/ \E extracted \in ExtractedLists : ServiceReturns(extracted)
    \/ toggleCollectionDay
    \/ \E id \in StudentIds : togglePayment(id)
    \/ markAll(TRUE)
    \/ ConfirmMarkAll
    \/ CancelConfirm
    \/ AddStudent("Ana", "a")
    \/ \E id \in StudentIds : DeleteStudent(id)
    \/ ImportText(<<"a">>)

\* the roster is edited while an image import is pending
SpecUpload == Init /\ [][NextUpload]_vars

\* the FileReader ends, with onload or with an error
ReaderEnds == ReaderLoads \/ ReaderFails

\* the awaited call of parseRosterFromImage resolves
ServiceEnds == \E extracted \in ExtractedLists : ServiceReturns(extracted)

\* the same, where a started FileReader ends and an awaited call resolves
SpecUploadFair == SpecUpload /\ WF_vars(ReaderEnds) /\ WF_vars(ServiceEnds)

NextStore ==
    \/ toggleCollectionDay
    \/ \E id \in StudentIds, text \in RecordTexts : RecordPayment(id, selectedDate, text)
    \/ saveExpense("3", "Tape", FALSE, "")
    \/ saveWish("Globe", "3", "Medium")
    \/ \E t \in 1..4 : Garble(t)
    \/ StorageFills
    \/ Reload

\* the view over a localStorage whose texts may be damaged and whose writes may fail
SpecStore == Init /\ [][NextStore]_vars

NextNotFound ==
    \/ toggleCollectionDay
    \/ \E id \in IdPool : DeleteStudent(id)
    \/ \E id \in IdPool, text \in RecordTexts : RecordPayment(id, selectedDate, text)
    \/ \E cat \in Categories : saveExpense("3", "Tape", TRUE, cat)
    \/ \E item \in Items : saveWish(item, "3", "Medium")
    \/ \E id \in TxIds : DeletePlanned(id)
    \/ \E id \in TxIds : deleteExpense(id)
    \/ ConfirmDeleteExpense
    \/ CancelConfirm
    \/ Tick

\* the handlers that take an id, called with ids that are and that are not there
SpecNotFound == Init /\ [][NextNotFound]_vars

---------------------------------------------------------------------------
(* The statements checked: what they speak of *)

\* collectionDays[d] is exactly true
Flag(d) == d \in DOMAIN settings.collectionDays /\ settings.collectionDays[d] = TRUE

\* the amount a student owes for d
EffectiveQuota(d) ==
    IF ~Flag(d) THEN Num(0)
    ELSE IF d \in DOMAIN settings.customQuotas THEN settings.customQuotas[d]
    ELSE settings.dailyQuota

\* a recorded amount as an integer, an absent entry counting as 0
AmountOf(x) == IF x.t = "num" THEN x.v ELSE 0

RECURSIVE SumOver(_, _)
\* the sum of f over the finite set S
SumOver(S, f) ==
    IF S = {} THEN 0
    ELSE LET x == CHOOSE y \in S : TRUE IN f[x] + SumOver(S \ {x}, f)

Max0(n) == IF n > 0 THEN n ELSE 0

\* the step is a run of one of the handlers ops
RunOf(ops) == nops' = nops + 1 /\ last'.op \in ops

\* the step is a call of markAll
CallOfMarkAll ==
    /\ confirmAction = <<>>
    /\ last'.op = "markAll"
    /\ last' # last \/ confirmAction' # <<>>

\* every entry of student i but the one of date d is what it was
OthersKept(i, d) ==
    \A e \in Dates \ {d} :
        Lookup(students'[i].payments, e) = Lookup(students[i].payments, e)

SameRoster ==
    /\ Len(students') = Len(students)
    /\ \A i \in 1..Len(students) : students'[i].id = students[i].id

---------------------------------------------------------------------------
\* C1: for a date that is not active the effective quota is 0, togglePayment and
\* markAll on it change neither the students, nor the persisted roster, nor open
\* the confirm modal, and a confirmed markAll only ever writes for an active date.
C1_InactiveDateNoOp ==
    [][ /\ \A d \in Dates : ~Flag(d) => getQuotaForDate(settings, d) = Num(0)
        /\ (RunOf({"togglePayment"}) /\ ~Flag(last'.date))
              => UNCHANGED <<students, dbStudents>>
        /\ (CallOfMarkAll /\ ~Flag(last'.date))
              => UNCHANGED <<students, dbStudents, confirmAction>>
        /\ RunOf({"confirmMarkAll"}) => Flag(last'.date) ]_vars

\* togglePayment ran on a date that was switched off after a payment was recorded
C1_Witness ==
    /\ last.op = "togglePayment"
    /\ last.date \in DOMAIN settings.collectionDays
    /\ ~Flag(last.date)
    /\ last.before # Undefined

---------------------------------------------------------------------------
---------------------------------------------------------------------------
\* every pair (student index, date) with a recorded entry
Entries(list) ==
    {<<i, d>> \in (1..Len(list)) \X Dates : d \in DOMAIN list[i].payments}

EntrySum(list) ==
    SumOver(Entries(list),
            [e \in Entries(list) |-> AmountOf(list[e[1]].payments[e[2]])])

WithoutDate(st, d) ==
    [st EXCEPT !.payments = [e \in (DOMAIN st.payments) \ {d} |-> st.payments[e]]]

\* C5: total income is the sum of all recorded entries of all students, active
\* date or not; switching a collection day or changing a quota leaves it as it
\* is; and the entries of a date that is not active do not enter any debt.
C5_IncomeIgnoresActive ==
    /\ [](totalIncome(students) = Num(EntrySum(students)))
    /\ [](\A d \in Dates : \A i \in 1..Len(students) :
            ~Flag(d) => debt(settings, students[i], today)
                          = debt(settings, WithoutDate(students[i], d), today))
    /\ [][ RunOf({"toggleCollectionDay", "saveDailyQuota", "saveDefaultQuota"})
             => totalIncome(students') = totalIncome(students) ]_vars

\* quota 5, all marked paid on a date, the date switched off: no debt, income 10
C5_Witness ==
    /\ last.op = "toggleCollectionDay" /\ ~Flag(last.date)
    /\ \A i \in 1..Len(students) :
          /\ Cell(students, students[i].id, last.date) = Num(DefaultDailyQuota)
          /\ debt(settings, students[i], today) = Num(0)
    /\ totalIncome(students) = Num(NumStudents * DefaultDailyQuota)

---------------------------------------------------------------------------
\* the dates that count for debt: active and not after today
DueDates == {d \in Dates : Flag(d) /\ d <= today}

Owed(S) == SumOver(S, [d \in S |-> AmountOf(EffectiveQuota(d))])
Paid(st, S) == SumOver(S, [d \in S |-> AmountOf(Lookup(st.payments, d))])

\* C6: the debt of every student is max(0, owed - paid) over the active dates up
\* to today, and never negative; the older view computes the same clamp over the
\* dates it takes as due.
C6_DebtClamped ==
    \A i \in 1..Len(students) :
        LET st == students[i]
            due == activeCollectionDates(settings, UtcDate)
        IN /\ debt(settings, st, today) = Num(Max0(Owed(DueDates) - Paid(st, DueDates)))
           /\ debt(settings, st, today).v >= 0
           /\ debtOlderView(settings, st, UtcDate) = Num(Max0(Owed(due) - Paid(st, due)))
           /\ debtOlderView(settings, st, UtcDate).v >= 0

\* one student paid more than is owed and has no debt, another owes
C6_Witness ==
    \E i, j \in 1..Len(students) :
        /\ Paid(students[i], DueDates) > Owed(DueDates)
        /\ debt(settings, students[i], today) = Num(0)
        /\ debt(settings, students[j], today).v > 0

---------------------------------------------------------------------------
\* C8: a confirmed markAll on an active date leaves every student with the
\* effective quota (paid) or 0 (reset) on that date, so paid followed by reset
\* leaves exactly 0; the entries of every other date are kept.
C8_MarkAllOverwrites ==
    [][ RunOf({"confirmMarkAll"}) =>
          LET d == last'.date
              amount == IF last'.paid THEN EffectiveQuota(d) ELSE Num(0)
          IN /\ Flag(d)
             /\ SameRoster
             /\ \A i \in 1..Len(students) :
                   /\ Lookup(students'[i].payments, d) = amount
                   /\ OthersKept(i, d)
             /\ (last'.after = "paid" /\ ~last'.paid)
                   => \A i \in 1..Len(students) : Lookup(students'[i].payments, d) = Num(0)
      ]_vars

\* mark all paid, then reset, on the same date
C8_Witness ==
    /\ last.op = "confirmMarkAll" /\ ~last.paid /\ last.after = "paid"
    /\ \A i \in 1..Len(students) : Lookup(students[i].payments, last.date) = Num(0)

---------------------------------------------------------------------------
\* C9: togglePayment (and the quick pay click) on an active date sets the entry to
\* 0 when the recorded amount, absent counting as 0, is at least the effective
\* quota, and to the effective quota otherwise; no other entry changes.
C9_ToggleAmount ==
    [][ (RunOf({"togglePayment", "quickPay"}) /\ Flag(last'.date)) =>
          LET d == last'.date
              cur == AmountOf(Cell(students, last'.id, d))
              q == EffectiveQuota(d)
          IN /\ SameRoster
             /\ \A i \in 1..Len(students) :
                   IF students[i].id = last'.id
                   THEN /\ Lookup(students'[i].payments, d)
                             = (IF cur >= AmountOf(q) THEN Num(0) ELSE q)
                        /\ OthersKept(i, d)
                   ELSE students'[i] = students[i]
      ]_vars

\* a partial amount was toggled up to the quota
C9_Witness ==
    /\ last.op = "togglePayment" /\ Flag(last.date)
    /\ last.before.t = "num" /\ last.before.v > 0
    /\ last.before.v < AmountOf(EffectiveQuota(last.date))
    /\ Cell(students, last.id, last.date) = EffectiveQuota(last.date)

---------------------------------------------------------------------------
\* C10: every stored payment amount, in the view and in the table, is a number
\* that is not negative.
C10_PaymentsNonNegative ==
    \A list \in {students, getStudents(dbStudents)} :
        \A i \in 1..Len(list) : \A d \in DOMAIN list[i].payments :
            list[i].payments[d].t = "num" /\ list[i].payments[d].v >= 0

---------------------------------------------------------------------------
\* the planned item of the confirm modal is listed
WishListed ==
    \E k \in 1..Len(plannedExpenses) : plannedExpenses[k] = confirmAction[1].wish

\* the last element of list records the purchase of wish
PurchaseOf(list, wish) ==
    /\ Len(list) > 0
    /\ list[Len(list)].amount = wish.estimatedCost
    /\ list[Len(list)].description = wish.item
    /\ list[Len(list)].category = "Materials"

HasId(list, id) == \E k \in 1..Len(list) : list[k].id = id

\* C2: the conversion is all or nothing: when the confirmed conversion removes the
\* planned item from the stored planned list, its expense has been stored.
C2_ConversionAllOrNothing ==
    [][ RunOf({"confirmConvert"}) =>
          LET wish == confirmAction[1].wish
              before == getPlannedExpenses(dbPlanned)
              after == getPlannedExpenses(dbPlanned')
              txs == getTransactions(dbTransactions)
              txs2 == getTransactions(dbTransactions')
          IN (HasId(before, wish.id) /\ ~HasId(after, wish.id))
                => (Len(txs2) = Len(txs) + 1 /\ PurchaseOf(txs2, wish))
      ]_vars

---------------------------------------------------------------------------
\* C4: converting a listed planned item makes the expense list one longer and the
\* planned list one shorter, and the new last expense has the item's cost, its
\* name and the category 'Materials'.
C4_ConvertMovesOneItem ==
    [][ (RunOf({"confirmConvert"}) /\ WishListed) =>
          /\ Len(expenses') = Len(expenses) + 1
          /\ Len(plannedExpenses') = Len(plannedExpenses) - 1
          /\ PurchaseOf(expenses', confirmAction[1].wish)
      ]_vars

---------------------------------------------------------------------------
\* C7: in both views the dates that enter the debt are exactly the dates flagged
\* true and not after today; evaluated where the views evaluate it, when the
\* collection days change.
C7_DueDatesExact ==
    [][ RunOf({"toggleCollectionDay"}) =>
          /\ activeDates(settings', today') = DueDates'
          /\ activeCollectionDates(settings', UtcDate') = DueDates'
      ]_vars

---------------------------------------------------------------------------
\* the records of a list, as a set
Range(list) == {list[k] : k \in 1..Len(list)}

\* C11: every listed transaction has an amount above 0, the type 'EXPENSE' and the
\* status 'PAID', and a step never changes a transaction in place: each
\* transaction listed after the step was listed before it or is the appended one.
C11_ExpensesWellFormed ==
    /\ [](\A k \in 1..Len(expenses) :
            /\ expenses[k].amount.t = "num" /\ expenses[k].amount.v > 0
            /\ expenses[k].type = "EXPENSE"
            /\ expenses[k].status = "PAID")
    /\ [][ \A k \in 1..Len(expenses') :
              expenses'[k] \in Range(expenses) \/ k = Len(expenses') ]_vars

---------------------------------------------------------------------------
\* the stored lists and the lists of the view are what they were
ListsKept ==
    /\ students' = students
    /\ expenses' = expenses
    /\ plannedExpenses' = plannedExpenses
    /\ getStudents(dbStudents') = getStudents(dbStudents)
    /\ getTransactions(dbTransactions') = getTransactions(dbTransactions)
    /\ getPlannedExpenses(dbPlanned') = getPlannedExpenses(dbPlanned)

\* C12: deleteStudent, deleteTransaction, deletePlannedExpense and a payment update
\* run to their end for an id that is not there, and then the roster, the expense
\* list and the planned list, in the view and in the store, are what they were.
C12_MissingIdNoOp ==
    [][ /\ (RunOf({"deleteStudent", "recordPayment"}) /\ ~HasId(students, last'.id))
              => ListsKept
        /\ (RunOf({"confirmDeleteExpense"}) /\ ~HasId(expenses, confirmAction[1].id))
              => ListsKept
        /\ (RunOf({"deletePlanned"})
               /\ \A k \in 1..Len(plannedExpenses) :
                     ToString(plannedExpenses[k].id) # last'.id)
              => ListsKept
      ]_vars

\* one of the four ran for an id that is not there while all three lists hold records
C12_Witness ==
    /\ last.op \in {"deleteStudent", "recordPayment", "confirmDeleteExpense", "deletePlanned"}
    /\ last.op \in {"deleteStudent", "recordPayment"} => ~HasId(students, last.id)
    /\ last.op = "confirmDeleteExpense"
          => \A k \in 1..Len(expenses) : ToString(expenses[k].id) # last.id
    /\ last.op = "deletePlanned"
          => \A k \in 1..Len(plannedExpenses) : ToString(plannedExpenses[k].id) # last.id
    /\ Len(students) > 0 /\ Len(expenses) > 0 /\ Len(plannedExpenses) > 0

---------------------------------------------------------------------------
\* the text of the table is missing or does not parse
Unreadable(table) == Len(table) # 1

---------------------------------------------------------------------------
\* the first two characters of the line are a gender marker
Marked(line, g) ==
    /\ Len(line) >= 2
    /\ line[1] \in (IF g = "F" THEN {"F", "f"} ELSE {"M", "m"})
    /\ line[2] \in {" ", ","}

\* the student the line stands for: the gender of its marker, M without one, and as
\* name what follows the marker without its commas
StudentOfLine(line) ==
    LET rest == IF Marked(line, "F") \/ Marked(line, "M")
                THEN SubSeq(line, 3, Len(line)) ELSE line
    IN [gender |-> IF Marked(line, "F") THEN "F" ELSE "M",
        name |-> Join(Trim(SelectSeq(rest, LAMBDA c : c # ",")))]

\* C14: the import of a text appends, after the roster there was, one student per
\* line that is not blank, in the order of the lines, with no payments, the gender
\* of the line's marker (M without marker) and the name without marker and commas;
\* the count returned is the number of these lines.
C14_ImportFromText ==
    [][ RunOf({"importText"}) =>
          LET text == last'.before.v
              lines == ImportLines(text)
              old == Len(students)
          IN /\ ImportCount(text) = Len(lines)
             /\ Len(students') = old + Len(lines)
             /\ SubSeq(students', 1, old) = students
             /\ \A k \in 1..Len(lines) :
                   /\ students'[old + k].payments = <<>>
                   /\ students'[old + k].gender = StudentOfLine(lines[k]).gender
                   /\ students'[old + k].name = StudentOfLine(lines[k]).name
      ]_vars

---------------------------------------------------------------------------
\* the category a transaction is charted under
Bucket(e) == IF "category" \in DOMAIN e /\ e.category # "" THEN e.category ELSE "Other"

\* the transaction at k is the first of its bucket
FirstOfBucket(list, k) == \A j \in 1..(k - 1) : Bucket(list[j]) # Bucket(list[k])

\* the positions of the first transaction of each bucket, in list order
FirstPositions(list) ==
    SelectSeq([k \in 1..Len(list) |-> k], LAMBDA k : FirstOfBucket(list, k))

BucketSum(list, b) ==
    LET S == {k \in 1..Len(list) : Bucket(list[k]) = b}
    IN SumOver(S, [k \in S |-> AmountOf(list[k].amount)])

\* C15: the breakdown has one group per category, an empty or missing category
\* counting as 'Other', each with the sum of its transactions' amounts, the groups
\* in the order in which their first transaction is listed; the group values add
\* up to the total of the expenses.
C15_CategoryBreakdown ==
    LET pie == pieData(expenses)
        firsts == FirstPositions(expenses)
    IN /\ Len(pie) = Len(firsts)
       /\ \A g \in 1..Len(firsts) :
             /\ pie[g].name = Bucket(expenses[firsts[g]])
             /\ pie[g].value = Num(BucketSum(expenses, pie[g].name))
       /\ SumOver(1..Len(pie), [g \in 1..Len(pie) |-> AmountOf(pie[g].value)])
             = AmountOf(totalExpenses(expenses))

---------------------------------------------------------------------------
\* the place of the student with the id in the roster
RosterIndex(id) == CHOOSE i \in 1..Len(students) : students[i].id = id

\* C16: the debtor listing holds exactly the students whose debt is above 0, each
\* once, in descending order of debt, students of equal debt in roster order.
C16_DebtorListing ==
    LET ds == debtors(settings, students, today)
        owing == {i \in 1..Len(students) : debt(settings, students[i], today).v > 0}
    IN /\ Len(ds) = Cardinality(owing)
       /\ {ds[k].id : k \in 1..Len(ds)} = {students[i].id : i \in owing}
       /\ \A k \in 1..Len(ds) :
             /\ ds[k].debt = debt(settings, students[RosterIndex(ds[k].id)], today)
             /\ ds[k].debt.v > 0
       /\ \A k, l \in 1..Len(ds) :
             k < l => \/ ds[k].debt.v > ds[l].debt.v
                      \/ /\ ds[k].debt.v = ds[l].debt.v
                         /\ RosterIndex(ds[k].id) < RosterIndex(ds[l].id)

\* two debtors, the one later in the roster owing more and listed first
C16_Witness ==
    LET ds == debtors(settings, students, today)
    IN /\ Len(ds) = 2
       /\ ds[1].debt.v > ds[2].debt.v
       /\ RosterIndex(ds[1].id) > RosterIndex(ds[2].id)

---------------------------------------------------------------------------
\* the sum of the amounts of the listed transactions
TxSum(list) == SumOver(1..Len(list), [k \in 1..Len(list) |-> AmountOf(list[k].amount)])

\* C17: the balance is the income less the expenses, below 0 when the expenses
\* are higher; the expenses are the sum of the transaction amounts; the sums over
\* no students, no payments, no transactions, no planned items and no debtors are
\* 0; saving or deleting a planned item leaves the balance as it is.
C17_BalanceUnclamped ==
    /\ [](/\ currentBalance(students, expenses)
               = Num(EntrySum(students) - TxSum(expenses))
          /\ totalExpenses(expenses) = Num(TxSum(expenses))
          /\ Entries(students) = {} => totalIncome(students) = Num(0)
          /\ expenses = <<>> => totalExpenses(expenses) = Num(0)
          /\ plannedExpenses = <<>> => totalWishlist(plannedExpenses) = Num(0)
          /\ debtors(settings, students, today) = <<>>
                => totalDebt(settings, students, today) = Num(0)
          /\ totalIncome(<<>>) = Num(0))
    /\ [][ RunOf({"saveWish", "deletePlanned"})
              => currentBalance(students', expenses') = currentBalance(students, expenses)
         ]_vars

\* a planned item was saved while the expenses are higher than the income
C17_Witness ==
    /\ last.op = "saveWish"
    /\ Len(plannedExpenses) > 0
    /\ totalIncome(students).v > 0
    /\ currentBalance(students, expenses).v < 0

---------------------------------------------------------------------------
\* C18: recording a payment sets the entry of the student on the date to the
\* amount, whatever was recorded before; the entries of the student on the other
\* dates, the other students, the settings, the expenses and the planned items
\* stay as they are; a recorded 0 is an entry of the map, which a date never
\* recorded is not.
C18_RecordPaymentSets ==
    [][ RunOf({"recordPayment"}) =>
          LET d == last'.date
              amount == last'.before.amount
          IN /\ SameRoster
             /\ \A i \in 1..Len(students) :
                   IF students[i].id = last'.id
                   THEN /\ d \in DOMAIN students'[i].payments
                        /\ students'[i].payments[d] = amount
                        /\ students'[i].payments[d] # Undefined
                        /\ DOMAIN students'[i].payments = DOMAIN students[i].payments \cup {d}
                        /\ OthersKept(i, d)
                        /\ students'[i].name = students[i].name
                   ELSE students'[i] = students[i]
             /\ getStudents(dbStudents') = students'
             /\ settings' = settings
             /\ expenses' = expenses
             /\ plannedExpenses' = plannedExpenses
             /\ dbSettings' = dbSettings
             /\ dbTransactions' = dbTransactions
             /\ dbPlanned' = dbPlanned
      ]_vars

\* 0 was recorded over an amount of 7 while another student has an entry too
C18_Witness ==
    /\ last.op = "recordPayment"
    /\ last.before.old = Num(7)
    /\ last.before.amount = Num(0)
    /\ \E i \in 1..Len(students) :
          /\ students[i].id = last.id
          /\ last.date \in DOMAIN students[i].payments
          /\ students[i].payments[last.date] = Num(0)
          /\ \E e \in Dates : e \notin DOMAIN students[i].payments
    /\ \E j \in 1..Len(students) :
          students[j].id # last.id /\ DOMAIN students[j].payments # {}

---------------------------------------------------------------------------
\* the ids of the listed students
IdsOf(list) == {list[k].id : k \in 1..Len(list)}

\* no two students of the list have the same id
DistinctIds(list) == \A k, l \in 1..Len(list) : k # l => list[k].id # list[l].id

\* the roster after the step begins with the roster before it
RosterExtended ==
    /\ Len(students') >= Len(students)
    /\ SubSeq(students', 1, Len(students)) = students

\* Add Single with a name puts one student with no payments at the end
AddAppendsOne ==
    (RunOf({"addStudent"}) /\ last'.id # "") =>
        /\ RosterExtended
        /\ Len(students') = Len(students) + 1
        /\ students'[Len(students')].id = last'.id
        /\ students'[Len(students')].payments = <<>>

\* adding, importing and deleting keep the students in the order they came in
InsertionOrderKept ==
    /\ RunOf({"addStudent", "importText"}) => RosterExtended
    /\ RunOf({"deleteStudent"}) =>
          students' = SelectSeq(students, LAMBDA st : st.id # last'.id)

\* C19: adding a student puts one student with no payments at the end of the
\* roster, under an id no student of the roster has; whatever is added, imported
\* and deleted, no two students of the roster have the same id and the roster
\* lists the students in the order they came in.
C19_FreshIdsInOrder ==
    /\ [] DistinctIds(students)
    /\ [][ /\ AddAppendsOne
           /\ (RunOf({"addStudent"}) /\ last'.id # "") => last'.id \notin IdsOf(students)
           /\ InsertionOrderKept
       ]_vars

---------------------------------------------------------------------------
\* C20: deleting a student removes the students of that id and no other; the
\* students that stay keep their order and their payments; the settings, the
\* expenses and the planned items stay as they are; the income is lower by the
\* payments of the removed students, and the id is not in the debtor listing.
C20_DeleteStudentExact ==
    [][ RunOf({"deleteStudent"}) =>
          LET id == last'.id
              gone == SelectSeq(students, LAMBDA st : st.id = id)
          IN /\ students' = SelectSeq(students, LAMBDA st : st.id # id)
             /\ getStudents(dbStudents') = students'
             /\ settings' = settings
             /\ expenses' = expenses
             /\ plannedExpenses' = plannedExpenses
             /\ dbSettings' = dbSettings
             /\ dbTransactions' = dbTransactions
             /\ dbPlanned' = dbPlanned
             /\ totalIncome(students') = Num(EntrySum(students) - EntrySum(gone))
             /\ ~HasId(debtors(settings', students', today'), id)
      ]_vars

\* a student who had paid 3 and still owed was deleted, and a student who paid stays
C20_Witness ==
    /\ last.op = "deleteStudent"
    /\ last.before.n = 1
    /\ last.before.sum = Num(3)
    /\ last.before.owed
    /\ ~HasId(students, last.id)
    /\ totalIncome(students).v > 0

---------------------------------------------------------------------------
\* the React states are what the getters read from the tables
ViewIsStored ==
    /\ settings = getSettings(dbSettings)
    /\ students = getStudents(dbStudents)
    /\ expenses = getTransactions(dbTransactions)
    /\ plannedExpenses = getPlannedExpenses(dbPlanned)

\* the handlers that change a collection
MutationOps ==
    {"toggleCollectionDay", "saveDailyQuota", "saveDefaultQuota", "togglePayment",
     "savePayment", "ledgerCell", "quickPay", "confirmMarkAll", "recordPayment",
     "addStudent", "deleteStudent", "importText", "saveExpense", "confirmDeleteExpense",
     "saveWish", "confirmConvert", "deletePlanned"}

\* C21: after a handler that changes a collection has run, the settings, the
\* roster, the expenses and the planned items of the view are the values the
\* store holds.
C21_NoUnsavedState == last.op \in MutationOps => ViewIsStored

---------------------------------------------------------------------------
\* the recorded payments of a roster: student id, date and amount
Recorded(list) ==
    UNION {{<<list[i].id, d, list[i].payments[d]>> : d \in DOMAIN list[i].payments} :
              i \in 1..Len(list)}

\* C22: a session that records a payment writes its whole roster, with the new
\* entry, over the students table.  A session that holds the stored roster loses
\* no stored entry by that; a session that holds an older roster leaves only the
\* entries of its own roster in the table, so that what the other session recorded
\* since is gone.
C22_LastWriterWins ==
    [][ /\ RunOf({"recordPayment"}) =>
              /\ getStudents(dbStudents')
                    = updateStudentPayment(students, last'.id, last'.before.amount, last'.date)
              /\ students = getStudents(dbStudents) =>
                    \A e \in Recorded(getStudents(dbStudents)) :
                        \/ e \in Recorded(getStudents(dbStudents'))
                        \/ e[1] = last'.id /\ e[2] = last'.date
        /\ RunOf({"recordPayment2"}) =>
              /\ getStudents(dbStudents')
                    = updateStudentPayment(students2, last'.id, last'.before.amount, last'.date)
              /\ students2 = getStudents(dbStudents) =>
                    \A e \in Recorded(getStudents(dbStudents)) :
                        \/ e \in Recorded(getStudents(dbStudents'))
                        \/ e[1] = last'.id /\ e[2] = last'.date
      ]_vars

\* the first session recorded 7 for a student, the second session then recorded 7
\* for another student from the roster it had loaded before: the table holds the
\* second payment and not the first
C22_Witness ==
    /\ last.op = "recordPayment2"
    /\ last.before.amount = Num(7)
    /\ <<last.id, last.date, Num(7)>> \in Recorded(getStudents(dbStudents))
    /\ \E e \in Recorded(students) :
          /\ e[1] # last.id
          /\ e[3] = Num(7)
          /\ e \notin Recorded(getStudents(dbStudents))
          /\ \A f \in Recorded(getStudents(dbStudents)) : f[1] # e[1]

---------------------------------------------------------------------------
\* the dates that have a flag, TRUE or FALSE, in the settings s
Flagged(s) == DOMAIN s.collectionDays

\* every date for which list holds a payment has a flag in s
PaymentsOnFlagged(s, list) ==
    \A i \in 1..Len(list) : DOMAIN list[i].payments \subseteq Flagged(s)

---------------------------------------------------------------------------
\* financials.debtors as displayed: the value useMemo holds
displayedDebtors == debtors(settings, students, memoToday)

\* C25: the debtor listing on display is the one derived from the settings, the
\* roster and the calendar date of now; once an active date is no longer in the
\* future it counts in the debts on display, also when nothing else has changed.
C25_DebtFollowsDate == displayedDebtors = debtors(settings, students, today)

---------------------------------------------------------------------------
\* list without its k-th record
Without(list, k) == SubSeq(list, 1, k - 1) \o SubSeq(list, k + 1, Len(list))

\* after is list before, or list before without one record
AtMostOneRemoved(before, after) ==
    \/ after = before
    \/ \E k \in 1..Len(before) : after = Without(before, k)

\* C26: the expenses have pairwise distinct ids and so have the planned items,
\* whatever was recorded, planned and converted, also at one reading of the
\* clock; deleting an expense or a planned item by id removes at most one record
\* and keeps the others in their order.
C26_DistinctRecordIds ==
    /\ [](/\ DistinctIds(expenses)
          /\ DistinctIds(plannedExpenses)
          /\ DistinctIds(getTransactions(dbTransactions))
          /\ DistinctIds(getPlannedExpenses(dbPlanned)))
    /\ [][ /\ RunOf({"confirmDeleteExpense"}) =>
                 /\ AtMostOneRemoved(expenses, expenses')
                 /\ plannedExpenses' = plannedExpenses
           /\ RunOf({"deletePlanned"}) =>
                 /\ AtMostOneRemoved(plannedExpenses, plannedExpenses')
                 /\ expenses' = expenses
       ]_vars

---------------------------------------------------------------------------
---------------------------------------------------------------------------
\* student st with only the payments of the dates in S
OnlyDates(st, S) ==
    [st EXCEPT !.payments = [e \in (DOMAIN st.payments) \cap S |-> st.payments[e]]]

\* the debt of the view: from the totals over the active dates up to today
DebtFromTotals ==
    \A i \in 1..Len(students) :
        LET st == students[i]
        IN /\ Paid(st, DueDates) >= Owed(DueDates) =>
                 /\ debt(settings, st, today) = Num(0)
                 /\ ~HasId(debtors(settings, students, today), st.id)
           /\ Paid(st, DueDates) < Owed(DueDates) =>
                 debt(settings, st, today) = Num(Owed(DueDates) - Paid(st, DueDates))
           /\ debt(settings, st, today) = debt(settings, OnlyDates(st, DueDates), today)

\* the debt of the older view, held against the same dates
OlderDebtFromTotals ==
    \A i \in 1..Len(students) :
        LET st == students[i]
        IN /\ Paid(st, DueDates) >= Owed(DueDates) =>
                 debtOlderView(settings, st, UtcDate) = Num(0)
           /\ debtOlderView(settings, st, UtcDate)
                 = debtOlderView(settings, OnlyDates(st, DueDates), UtcDate)

\* C28: the debt comes from the totals over the active dates up to today and not
\* from each date: a student who has paid in total at least what is owed in total
\* has debt 0 and is not listed as debtor, also with one of the dates unpaid;
\* payments on dates that are not active or are in the future change no debt.
\* This holds of the view and of the older view.
C28_DebtFromTotals == DebtFromTotals /\ OlderDebtFromTotals

---------------------------------------------------------------------------
\* C29: toggleCollectionDay turns the flag of the selected date, absent or FALSE,
\* into TRUE and a flag TRUE into FALSE; the default quota, the currency symbol,
\* the custom quotas, the flags of the other dates and the payments stay as they
\* are.  So the custom quota and the payments of a date outlive its switching
\* off, and switching an active date off and on again gives the same effective
\* quota and the same debts.
C29_ToggleFlagOnly ==
    /\ [][ RunOf({"toggleCollectionDay"}) =>
              LET d == last'.date
              IN /\ d = selectedDate
                 /\ DOMAIN settings'.collectionDays = DOMAIN settings.collectionDays \cup {d}
                 /\ settings'.collectionDays[d] = ~Flag(d)
                 /\ \A e \in (DOMAIN settings.collectionDays) \ {d} :
                       settings'.collectionDays[e] = settings.collectionDays[e]
                 /\ settings'.dailyQuota = settings.dailyQuota
                 /\ settings'.currencySymbol = settings.currencySymbol
                 /\ settings'.customQuotas = settings.customQuotas
                 /\ students' = students
                 /\ dbStudents' = dbStudents
       ]_vars
    /\ [](\A d \in Dates :
             LET off == ToggledSettings(settings, d)
                 on == ToggledSettings(off, d)
             IN Flag(d) =>
                  /\ ~isCollectionActive(off, d)
                  /\ getQuotaForDate(off, d) = Num(0)
                  /\ isCollectionActive(on, d)
                  /\ getQuotaForDate(on, d) = getQuotaForDate(settings, d)
                  /\ \A i \in 1..Len(students) :
                        debt(on, students[i], today) = debt(settings, students[i], today))

\* a date with a custom quota of 3 was switched off and is switched on again: its
\* effective quota is 3
C29_Witness ==
    /\ last.op = "toggleCollectionDay"
    /\ Flag(last.date)
    /\ last.date \in DOMAIN settings.customQuotas
    /\ settings.customQuotas[last.date] = Num(3)
    /\ getQuotaForDate(settings, last.date) = Num(3)
    /\ \A i \in 1..Len(students) : debt(settings, students[i], today).v = 3

---------------------------------------------------------------------------
\* the step in which the awaited call of the image import resolves
ImportCompletes == upload = "calling" /\ upload' = "idle"

\* C24: whatever was added, deleted, imported, toggled or marked while the image
\* import was pending, the completion of the import keeps every stored student
\* with every payment, in their order, and appends the extracted students, with
\* no payments, at the end; when nothing was extracted the roster stays as it is.
C24_ImageImportAppends ==
    [][ ImportCompletes =>
          LET stored == getStudents(dbStudents)
          IN \/ /\ last'.op = "imageEmpty"
                /\ students' = students
                /\ dbStudents' = dbStudents
             \/ /\ last'.op = "imageImported"
                /\ \E extracted \in ExtractedLists :
                      /\ Len(extracted) > 0
                      /\ Len(students') = Len(stored) + Len(extracted)
                      /\ SubSeq(students', 1, Len(stored)) = stored
                      /\ \A k \in 1..Len(extracted) :
                            LET new == students'[Len(stored) + k]
                            IN /\ new.name = extracted[k].name
                               /\ new.gender = extracted[k].gender
                               /\ new.payments = <<>>
                /\ getStudents(dbStudents') = students'
      ]_vars

\* an image import was completed with two students after a student had been
\* added and a payment toggled while it was pending: all of them are in the roster
C24_Witness ==
    /\ last.op = "imageImported"
    /\ Len(students) = NumStudents + 3
    /\ students[Len(students)].name = "Cai"
    /\ students[NumStudents + 1].name = "Ana"
    /\ \E i \in 1..Len(students) : DOMAIN students[i].payments # {}

\* while the analyzing flag is set, a handler of the view runs as it does without
\* a pending import
OthersStayEnabled ==
    [](isAnalyzingImage /\ ModalClosed /\ nops < MaxOps => ENABLED toggleCollectionDay)

\* the flag set by a started import is cleared again
FlagCleared == isAnalyzingImage ~> ~isAnalyzingImage

\* C30: an image import that was started ends: the analyzing flag, once set, is
\* cleared again, whether students were extracted, nothing was extracted, the
\* service failed or the file could not be read; while the flag is set the
\* handlers of the view stay enabled.
C30_ImportEnds ==
    /\ isAnalyzingImage ~> ~isAnalyzingImage
    /\ OthersStayEnabled

============================================================================
